---- MODULE Spec2Model ----
(***************************************************************************)
(* A model of the chat session of rhine (src/chat): the message store and  *)
(* its perspective rendering (chat_base.rs), and the tool-call pipeline of  *)
(* SingleChat (chat_single.rs) with its concurrently spawned dispatch       *)
(* tasks (chat_tool.rs).                                                    *)
(*                                                                          *)
(* Text is modelled at character level: a Rust String is a sequence of      *)
(* one-character strings, so that formatting, substring search and          *)
(* replacement are computed and not assumed.  Short fixed diagnostics that  *)
(* are only ever compared as a whole (tool results, error displays) are     *)
(* TLA+ strings built with \o.                                              *)
(***************************************************************************)
EXTENDS Integers, Sequences, FiniteSets, TLC

VARIABLES
    messages,      \* BaseChat.messages: the stored Message values, in push order
    usage,         \* BaseChat.usage
    tools_schema,  \* SingleChat.tools_schema
    payload,       \* the last request body built by build_request_body (or None)
    rendered,      \* the last Message::to_api_format application (or None)
    last,          \* the last completed call of get_answer, get_answer_again,
                   \* get_json_answer or process_tool_call with its inputs, what
                   \* the transport answered and what it returned (or None)
    pc,            \* where the session owner is inside get_tool_answer
    answer,        \* answer_with_text_calls of get_tool_answer: None until the
                   \* Generate exchange has produced it, then [text |-> ..]
    text_calls,    \* the extracted call texts
    clean_answer,  \* the answer with the directives stripped
    tasks,         \* the spawned dispatch tasks, in spawn order
    completed,     \* history: indices of the tasks in the order they finished
    invocations,   \* history: secondary model invocations made by the tasks
    results,       \* the results vector of the join loop
    errors,        \* the errors vector of the join loop
    ret,           \* the value get_tool_answer returned (or None)
    ops,           \* how many session operations were started (bounded)
    next_task_id,  \* one more than the greatest id the runtime has given a task
                   \* of the session: its counter is at least this
    need_stream    \* SingleChat.need_stream and BaseChat.need_stream, set at
                   \* construction

vars == <<messages, usage, tools_schema, payload, rendered, last, pc, answer,
          text_calls, clean_answer, tasks, completed, invocations, results,
          errors, ret, ops, next_task_id, need_stream>>

None == [none |-> TRUE]

----------------------------------------------------------------------------
(* Bounds of the model. *)

\* stored messages a rendering behaviour may push
MaxMsgs == 2
\* directives in an answer of the model service
MaxCalls == 2
\* tag/filler segments an answer of the stripping behaviours is made of
MaxSegs == 7
\* session operations started in one behaviour
MaxOps == 1
\* the operations a caller runs on one session in the session behaviours
MaxExchanges == 2
----------------------------------------------------------------------------
(* Text: Rust String as a sequence of characters. *)

\* "<ToolUse>" and "</ToolUse>", the literals of the format! in get_tool_answer
OpenTag == <<"<", "T", "o", "o", "l", "U", "s", "e", ">">>
CloseTag == <<"<", "/", "T", "o", "o", "l", "U", "s", "e", ">">>

\* does pattern p occur in s starting at index i (1-based)
MatchAt(s, p, i) ==
    /\ i >= 1
    /\ i + Len(p) - 1 <= Len(s)
    /\ \A j \in 1..Len(p) : s[i + j - 1] = p[j]

\* str::find from index i: least index >= i where p occurs, 0 when none
RECURSIVE FindFrom(_, _, _)
FindFrom(s, p, i) ==
    IF i + Len(p) - 1 > Len(s) THEN 0
    ELSE IF MatchAt(s, p, i) THEN i
    ELSE FindFrom(s, p, i + 1)

Drop(s, n) == SubSeq(s, n + 1, Len(s))

\* str::replace(from, to) for a non-empty pattern: every non-overlapping
\* occurrence, found left to right in one pass, is replaced
RECURSIVE Replace(_, _, _)
Replace(s, from, to) ==
    LET i == FindFrom(s, from, 1) IN
    IF i = 0 THEN s
    ELSE SubSeq(s, 1, i - 1) \o to \o Replace(Drop(s, i + Len(from) - 1), from, to)

----------------------------------------------------------------------------
(* chat_base.rs: Role, Message and the perspective rendering. *)

\* enum Role { System, User, Assistant, Character(String) }; derived PartialEq
\* compares the variant and, for Character, the name
RoleSystem == [tag |-> "System", name |-> <<>>]
RoleUser == [tag |-> "User", name |-> <<>>]
RoleAssistant == [tag |-> "Assistant", name |-> <<>>]
Character(c) == [tag |-> "Character", name |-> c]

\* the character names and message contents the model draws from
Amy == <<"A", "m", "y">>
Bob == <<"B", "o", "b">>
ModelRoles == {RoleSystem, RoleUser, RoleAssistant, Character(Amy), Character(Bob)}
ModelContents == {<<"h", "i">>, <<>>}

\* struct Message { role, content }
Message(role, content) == [role |-> role, content |-> content]

\* format!("{} said: {}", c, content)
SaidInfix == <<" ", "s", "a", "i", "d", ":", " ">>
FormatSaid(c, content) == c \o SaidInfix \o content
\* format!("Assistant said: {}", content)
AssistantName == <<"A", "s", "s", "i", "s", "t", "a", "n", "t">>
FormatAssistantSaid(content) == AssistantName \o SaidInfix \o content

\* to_api_format as it would be if a Character message were cast as
\* "assistant" without comparing its role with the current speaker
to_api_format_self_speaker(m, current_speaker) ==
    LET first ==
            CASE m.role.tag = "System" -> [role |-> "system", content |-> m.content]
              [] m.role.tag = "User" -> [role |-> "user", content |-> m.content]
              [] m.role.tag = "Assistant" -> [role |-> "assistant", content |-> m.content]
              [] OTHER -> [role |-> "assistant", content |-> m.content]
    IN  first

\* to_api_format as it would be if the Assistant branch changed the role but
\* forgot to rewrite the content
to_api_format_no_prefix(m, current_speaker) ==
    LET first ==
            CASE m.role.tag = "System" -> [role |-> "system", content |-> m.content]
              [] m.role.tag = "User" -> [role |-> "user", content |-> m.content]
              [] m.role.tag = "Assistant" -> [role |-> "assistant", content |-> m.content]
              [] OTHER ->
                    IF m.role = current_speaker
                    THEN [role |-> "assistant", content |-> m.content]
                    ELSE [role |-> "user", content |-> FormatSaid(m.role.name, m.content)]
    IN  IF m.role.tag = "Assistant"
        THEN IF m.role = current_speaker
             THEN [first EXCEPT !.role = "assistant"]
             ELSE [first EXCEPT !.role = "user"]
        ELSE first

\* Message::to_api_format: the match on self.role, then the special handling
\* of Role::Assistant that overrides what the match produced
to_api_format(m, current_speaker) ==
    LET first ==
            CASE m.role.tag = "System" -> [role |-> "system", content |-> m.content]
              [] m.role.tag = "User" -> [role |-> "user", content |-> m.content]
              [] m.role.tag = "Assistant" -> [role |-> "assistant", content |-> m.content]
              [] OTHER ->
                    IF m.role = current_speaker
                    THEN [role |-> "assistant", content |-> m.content]
                    ELSE [role |-> "user", content |-> FormatSaid(m.role.name, m.content)]
    IN  IF m.role.tag = "Assistant"
        THEN IF m.role = current_speaker
             THEN [first EXCEPT !.role = "assistant"]
             ELSE [role |-> "user", content |-> FormatAssistantSaid(m.content)]
        ELSE first

\* BaseChat.character_prompt and BaseChat.model are set by the constructor and
\* never assigned again
CharacterPrompt == <<"Y", "o", "u", " ", "a", "r", "e", " ", "A", "m", "y">>
ModelName == "model"

\* build_messages as it would be if the character prompt were left out when
\* the store already begins with a System message
build_messages_skip_prompt(store) ==
    IF store # <<>> /\ store[1].role.tag = "System"
    THEN [i \in 1..Len(store) |-> to_api_format(store[i], store[i].role)]
    ELSE <<[role |-> "system", content |-> CharacterPrompt]>>
         \o [i \in 1..Len(store) |-> to_api_format(store[i], store[i].role)]

\* BaseChat::build_messages: the system message with the character prompt,
\* then every stored message rendered with ITS OWN role as current speaker
build_messages(store) ==
    <<[role |-> "system", content |-> CharacterPrompt]>>
    \o [i \in 1..Len(store) |-> to_api_format(store[i], store[i].role)]

\* BaseChat::build_request_body
build_request_body(store) ==
    [model |-> ModelName, messages |-> build_messages(store), stream |-> need_stream]

----------------------------------------------------------------------------
(* Tool-use directives: extraction and stripping. *)

\* schema::tool_schema::extract_tool_uses: the texts between "<ToolUse>" and the
\* next "</ToolUse>", scanned left to right, in order of appearance; an
\* unbalanced tag is not matched
RECURSIVE extract_tool_uses(_)
extract_tool_uses(s) ==
    LET i == FindFrom(s, OpenTag, 1)
        j == IF i = 0 THEN 0 ELSE FindFrom(s, CloseTag, i + Len(OpenTag))
    IN  IF i = 0 \/ j = 0 THEN <<>>
        ELSE <<SubSeq(s, i + Len(OpenTag), j - 1)>>
             \o extract_tool_uses(Drop(s, j + Len(CloseTag) - 1))

\* format!("<ToolUse>{}</ToolUse>", call)
Directive(call) == OpenTag \o call \o CloseTag

\* the fold of get_tool_answer: for each call text in turn, replace every
\* occurrence of its directive in the accumulator by ""
RECURSIVE strip_directives(_, _)
strip_directives(ans, calls) ==
    IF calls = <<>> THEN ans
    ELSE strip_directives(Replace(ans, Directive(Head(calls)), <<>>), Tail(calls))

----------------------------------------------------------------------------
(* process_tool_call: one dispatch task. *)

\* serde_json::Value::Null, what indexing a missing member yields
JNull == [null |-> TRUE]
\* serde_json::Value::String(s)
JString(s) == [str |-> s]
\* Value::as_str: Some(s) for a String, None for every other value
as_str(v) == IF "str" \in DOMAIN v THEN [some |-> TRUE, value |-> v.str]
             ELSE [some |-> FALSE, value |-> ""]
\* the `name` of an Outcome whose text carries no function name
NoName == ""

\* the tool registry: the registered function names
RegisteredTools == {"f"}
\* the names a resolved call may carry: registered, and not registered
ModelNames == {"f", "h"}
\* the `arguments` strings a resolved call may carry
ModelArgStrings == {"{}", "[1]", "null", "{"}

\* the function object get_function returns: response[...]["function"], which is
\* Null (so has neither member as a string) when the path is absent
ModelFunctionCalls ==
    [name : {JString(n) : n \in ModelNames} \cup {JNull},
     arguments : {JString(a) : a \in ModelArgStrings} \cup {JNull}]

\* what the secondary invocation of get_function may answer: a transport or
\* payload failure of get_response, or a response carrying a function object
ModelResolutions ==
    {[ok |-> FALSE, fc |-> [name |-> JNull, arguments |-> JNull]]}
    \cup {[ok |-> TRUE, fc |-> fc] : fc \in ModelFunctionCalls}

\* serde_json::from_str::<Value>: any JSON text parses, object or not
from_str(a) ==
    CASE a = "{}" -> [ok |-> TRUE, value |-> "object", error |-> ""]
      [] a = "[1]" -> [ok |-> TRUE, value |-> "array", error |-> ""]
      [] a = "1" -> [ok |-> TRUE, value |-> "number", error |-> ""]
      [] a = "\"s\"" -> [ok |-> TRUE, value |-> "string", error |-> ""]
      [] a = "true" -> [ok |-> TRUE, value |-> "boolean", error |-> ""]
      [] a = "null" -> [ok |-> TRUE, value |-> "null", error |-> ""]
      [] OTHER -> [ok |-> FALSE, value |-> "",
                   error |-> "EOF while parsing an object at line 1 column 1"]

\* what a registered tool function may do with its arguments: return a JSON
\* value (the number 1, the object {"a": 1}), return an error, or panic
ModelToolBehaviours ==
    {[kind |-> "ok", value |-> "1"], [kind |-> "ok", value |-> "{a:1}"],
     [kind |-> "err", value |-> "boom"], [kind |-> "panic", value |-> "tool panicked"]}

\* serde_json::to_string_pretty of a tool's return value
to_string_pretty(v) ==
    CASE v = "1" -> [ok |-> TRUE, text |-> "1"]
      [] v = "{a:1}" -> [ok |-> TRUE, text |-> "{\n  \"a\": 1\n}"]
      [] OTHER -> [ok |-> FALSE, text |-> ""]

\* the outcome of a task: kind is "Ok" / "Err" (the Result of process_tool_call)
\* or "Panic" (the task died); text is the Ok string, the error's Display or
\* the panic message;
\* name is the function name where the text carries it; invoked tells whether
\* the tool function was called
Outcome(kind, why, text, name, invoked) ==
    [kind |-> kind, why |-> why, text |-> text, name |-> name, invoked |-> invoked]

\* process_tool_call as it would be if a missing function were raised as
\* ToolCallError::FunctionNotFound instead of being returned as a result text
process_tool_call_not_found_is_err(res, tool) ==
    IF ~res.ok THEN Outcome("Err", "ParseFunctionCall", "Failed to parse function call", NoName, FALSE)
    ELSE IF ~as_str(res.fc.name).some
    THEN Outcome("Err", "MissingField", "Missing field: name", NoName, FALSE)
    ELSE IF ~as_str(res.fc.arguments).some
    THEN Outcome("Err", "MissingField", "Missing field: arguments", NoName, FALSE)
    ELSE IF ~from_str(as_str(res.fc.arguments).value).ok
    THEN Outcome("Err", "DeserializeArguments",
                 "Failed to deserialize arguments: " \o from_str(as_str(res.fc.arguments).value).error,
                 NoName, FALSE)
    ELSE IF as_str(res.fc.name).value \notin RegisteredTools
    THEN Outcome("Err", "NotFound",
                 "Function '" \o as_str(res.fc.name).value \o "' not found", as_str(res.fc.name).value, FALSE)
    ELSE CASE tool.kind = "ok" ->
                IF to_string_pretty(tool.value).ok
                THEN Outcome("Ok", "Payload", to_string_pretty(tool.value).text, as_str(res.fc.name).value, TRUE)
                ELSE Outcome("Err", "SerializeResult", "Failed to serialize function result",
                             NoName, TRUE)
           [] tool.kind = "err" ->
                Outcome("Ok", "ExecutionFailed",
                        "Calling function '" \o as_str(res.fc.name).value \o "' failed: " \o tool.value,
                        as_str(res.fc.name).value, TRUE)
           [] OTHER -> Outcome("Panic", "ToolPanic", tool.value, NoName, TRUE)

\* process_tool_call as it would be if the registry were consulted before the
\* arguments are parsed
process_tool_call_lookup_first(res, tool) ==
    IF ~res.ok THEN Outcome("Err", "ParseFunctionCall", "Failed to parse function call", NoName, FALSE)
    ELSE IF ~as_str(res.fc.name).some
    THEN Outcome("Err", "MissingField", "Missing field: name", NoName, FALSE)
    ELSE IF ~as_str(res.fc.arguments).some
    THEN Outcome("Err", "MissingField", "Missing field: arguments", NoName, FALSE)
    ELSE IF as_str(res.fc.name).value \notin RegisteredTools
    THEN Outcome("Ok", "NotFound",
                 "Cannot find function named '" \o as_str(res.fc.name).value \o "'", as_str(res.fc.name).value, FALSE)
    ELSE IF ~from_str(as_str(res.fc.arguments).value).ok
    THEN Outcome("Err", "DeserializeArguments",
                 "Failed to deserialize arguments: " \o from_str(as_str(res.fc.arguments).value).error,
                 NoName, FALSE)
    ELSE CASE tool.kind = "ok" ->
                IF to_string_pretty(tool.value).ok
                THEN Outcome("Ok", "Payload", to_string_pretty(tool.value).text, as_str(res.fc.name).value, TRUE)
                ELSE Outcome("Err", "SerializeResult", "Failed to serialize function result",
                             NoName, TRUE)
           [] tool.kind = "err" ->
                Outcome("Ok", "ExecutionFailed",
                        "Calling function '" \o as_str(res.fc.name).value \o "' failed: " \o tool.value,
                        as_str(res.fc.name).value, TRUE)
           [] OTHER -> Outcome("Panic", "ToolPanic", tool.value, NoName, TRUE)

\* SingleChat::process_tool_call from the point where get_function has answered
\* `res`: validation of name, arguments, parsing, registry lookup, invocation
\* (`tool` is what the function does if it is invoked)
process_tool_call(res, tool) ==
    IF ~res.ok THEN Outcome("Err", "ParseFunctionCall", "Failed to parse function call", NoName, FALSE)
    ELSE IF ~as_str(res.fc.name).some
    THEN Outcome("Err", "MissingField", "Missing field: name", NoName, FALSE)
    ELSE IF ~as_str(res.fc.arguments).some
    THEN Outcome("Err", "MissingField", "Missing field: arguments", NoName, FALSE)
    ELSE IF ~from_str(as_str(res.fc.arguments).value).ok
    THEN Outcome("Err", "DeserializeArguments",
                 "Failed to deserialize arguments: " \o from_str(as_str(res.fc.arguments).value).error,
                 NoName, FALSE)
    ELSE IF as_str(res.fc.name).value \notin RegisteredTools
    THEN Outcome("Ok", "NotFound",
                 "Cannot find function named '" \o as_str(res.fc.name).value \o "'", as_str(res.fc.name).value, FALSE)
    ELSE CASE tool.kind = "ok" ->
                IF to_string_pretty(tool.value).ok
                THEN Outcome("Ok", "Payload", to_string_pretty(tool.value).text, as_str(res.fc.name).value, TRUE)
                ELSE Outcome("Err", "SerializeResult", "Failed to serialize function result",
                             NoName, TRUE)
           [] tool.kind = "err" ->
                Outcome("Ok", "ExecutionFailed",
                        "Calling function '" \o as_str(res.fc.name).value \o "' failed: " \o tool.value,
                        as_str(res.fc.name).value, TRUE)
           [] OTHER -> Outcome("Panic", "ToolPanic", tool.value, NoName, TRUE)

\* <str as Debug>::fmt: the text between double quotes, with the double
\* quote, the backslash and the line feed escaped; escaped[k] is the escaped
\* text of the first k characters
escape_debug(text) ==
    LET escaped[k \in 0..Len(text)] ==
            IF k = 0 THEN ""
            ELSE escaped[k - 1]
                 \o (CASE SubSeq(text, k, k) = "\"" -> "\\\""
                        [] SubSeq(text, k, k) = "\\" -> "\\\\"
                        [] SubSeq(text, k, k) = "\n" -> "\\n"
                        [] OTHER -> SubSeq(text, k, k))
    IN  escaped[Len(text)]
str_debug(text) == "\"" \o escape_debug(text) \o "\""

\* the Err of Config::get_api_info_with_capablity when no api has the capability
ConfigError == "no api with capability ToolUse"

\* the panic of BaseChat::new_with_model_capability's unwrap inside get_function
\* the grave accent, written as the first character of a two-character string
Backtick == SubSeq("`'", 1, 1)
\* the message of Result::unwrap on an Err whose Debug text is e
unwrap_failed(e) ==
    "called " \o Backtick \o "Result::unwrap()" \o Backtick \o " on an "
    \o Backtick \o "Err" \o Backtick \o " value: " \o e
ConfigPanic ==
    Outcome("Panic", "ConfigPanic", unwrap_failed(str_debug(ConfigError)), NoName, FALSE)

\* add_tools(base.build_request_body(), json!({"tools": tools_schema}))
add_tools(body, schema) ==
    [model |-> body.model, messages |-> body.messages, stream |-> body.stream,
     tools |-> schema.tools]

\* the character prompt of the BaseChat get_function builds, the fixed text of
\* 14 characters at chat_tool.rs:55; a character outside ASCII is written as
\* its code point
GetFunctionPrompt ==
    <<"U+6839", "U+636E", "U+8F93", "U+5165", "U+7684", "U+5185", "U+5BB9", "U+8C03",
      "U+7528", "U+6307", "U+5B9A", "U+7684", "U+51FD", "U+6570">>

\* the request get_function builds on its own throw-away BaseChat, whose
\* character prompt is GetFunctionPrompt, whose store holds the call text as a
\* User message and whose need_stream is false
get_function_request(text_call, schema) ==
    LET base == <<Message(RoleUser, text_call)>> IN
    add_tools([model |-> ModelName,
               messages |-> <<[role |-> "system", content |-> GetFunctionPrompt]>>
                            \o [i \in 1..Len(base) |-> to_api_format(base[i], base[i].role)],
               stream |-> FALSE],
              [tools |-> schema])

----------------------------------------------------------------------------
(* The model service and the session's inputs. *)

\* user inputs
ModelInputs == {<<"g", "o">>}

\* the call text of the i-th directive of a model answer
Digits == <<"1", "2", "3", "4", "5", "6", "7", "8", "9">>
CallText(i) == <<"c", Digits[i]>>

\* "ok " then k directives, each followed by a blank, then "done"
RECURSIVE DirectiveRun(_, _)
DirectiveRun(i, k) ==
    IF i > k THEN <<>> ELSE Directive(CallText(i)) \o <<" ">> \o DirectiveRun(i + 1, k)
AnswerWith(k) == <<"o", "k", " ">> \o DirectiveRun(1, k) \o <<"d", "o", "n", "e">>

\* an answer with an opening tag that is never closed
UnbalancedAnswer == <<"n", "o", " ">> \o OpenTag \o <<"x">>

\* the answers the service gives in the dispatch behaviours
ModelAnswers == {AnswerWith(k) : k \in 0..MaxCalls} \cup {UnbalancedAnswer}

\* the answers of the stripping behaviours: every concatenation of at most
\* MaxSegs segments, a segment being a tag or a filler character
Segments == {OpenTag, CloseTag, <<"a">>}
RECURSIVE Flatten(_)
Flatten(ss) == IF ss = <<>> THEN <<>> ELSE Head(ss) \o Flatten(Tail(ss))
SegmentAnswers == {Flatten(ss) : ss \in UNION {[1..n -> Segments] : n \in 0..MaxSegs}}

\* what the Generate exchange may come back with: a failure of send_request, or
\* a parsed body with total_tokens and, possibly, choices[0].message.content
GenerateFailures == {"HttpError", "UnknownError", "ParseResponseError", "MissingUsageData"}

\* an i64 as its two 32-bit halves: the value is hi * 2^32 + (lo mod 2^32), lo
\* being the low half read as a signed 32-bit integer
I64(hi, lo) == [hi |-> hi, lo |-> lo]
\* `x as i32` of an i64 keeps the low 32 bits
AsI32(x) == x.lo
\* the largest i32 (BaseChat.usage is an i32)
MaxI32 == 2147483647
MinI32 == -MaxI32 - 1
\* i32 addition in two's complement, computed without leaving the i32 range
AddI32(a, b) ==
    IF b > 0 /\ a > MaxI32 - b THEN (a - MaxI32 - 1) + (b - MaxI32 - 1)
    ELSE IF b < 0 /\ a < MinI32 - b THEN (a + MaxI32 + 1) + (b + MaxI32 + 1)
    ELSE a + b

\* usage.total_tokens values of a response
ModelTokens == {I64(0, 7)}

\* assemble_tools_prompt(tools_schema): the text of the system message set_tools adds
ToolsPrompt == <<"t", "o", "o", "l", "s">>
\* the tool schema a caller registers
ModelToolsSchema == <<"f">>

----------------------------------------------------------------------------
(* State. *)

Init ==
    /\ messages = <<>>
    /\ usage = 0
    /\ tools_schema = <<>>
    /\ payload = None
    /\ rendered = None
    /\ last = None
    /\ pc = "idle"
    /\ answer = None
    /\ text_calls = <<>>
    /\ clean_answer = <<>>
    /\ tasks = <<>>
    /\ completed = <<>>
    /\ invocations = 0
    /\ results = <<>>
    /\ errors = <<>>
    /\ ret = None
    /\ ops = 0
    /\ next_task_id = 1
    /\ need_stream = FALSE

pipeline_vars == <<pc, answer, text_calls, clean_answer, tasks, completed,
                   invocations, results, errors, ret, ops, next_task_id, need_stream>>

Idle == pc \in {"idle", "returned"}

----------------------------------------------------------------------------
(* Operations of BaseChat. *)

\* BaseChat::add_message
add_message(role, content) ==
    /\ Idle
    /\ Len(messages) < MaxMsgs
    /\ messages' = Append(messages, Message(role, content))
    /\ UNCHANGED <<usage, tools_schema, payload, rendered, last>>
    /\ UNCHANGED pipeline_vars

AddMessage == \E role \in ModelRoles, content \in ModelContents : add_message(role, content)

\* a caller applying Message::to_api_format to a stored message
Render ==
    /\ Idle
    /\ \E i \in 1..Len(messages), speaker \in ModelRoles :
          rendered' = [msg |-> messages[i], speaker |-> speaker,
                       out |-> to_api_format(messages[i], speaker)]
    /\ UNCHANGED <<messages, usage, tools_schema, payload, last>>
    /\ UNCHANGED pipeline_vars

\* a caller applying BaseChat::build_request_body(&self): the body, with the
\* store as it was before and as it is after the call
BuildRequestBody ==
    /\ Idle
    /\ UNCHANGED <<messages, usage, tools_schema, rendered, last>>
    /\ payload' = [body |-> build_request_body(messages), before |-> messages,
                   after |-> messages']
    /\ UNCHANGED pipeline_vars

----------------------------------------------------------------------------
(* Operations of SingleChat. *)

\* set_tools as it would be if it started the conversation over with the
\* tools prompt
set_tools_replaces_store(limit) ==
    /\ Idle
    /\ ops < limit
    /\ ops' = ops + 1
    /\ UNCHANGED <<next_task_id, need_stream>>
    /\ tools_schema' = ModelToolsSchema
    /\ messages' = <<Message(RoleSystem, ToolsPrompt)>>
    /\ UNCHANGED <<usage, payload, rendered, last, pc, answer, text_calls, clean_answer, tasks,
                   completed, invocations, results, errors, ret>>

\* SingleChat::set_tools: keeps the schema and pushes the tools prompt as a
\* System message
set_tools(limit) ==
    /\ Idle
    /\ ops < limit
    /\ ops' = ops + 1
    /\ UNCHANGED <<next_task_id, need_stream>>
    /\ tools_schema' = ModelToolsSchema
    /\ messages' = Append(messages, Message(RoleSystem, ToolsPrompt))
    /\ UNCHANGED <<usage, payload, rendered, last, pc, answer, text_calls, clean_answer, tasks,
                   completed, invocations, results, errors, ret>>

\* get_tool_answer up to its first suspension: get_answer pushes the User
\* message, builds the request body and sends it
get_tool_answer(limit) ==
    /\ Idle
    /\ ops < limit
    /\ \E input \in ModelInputs :
          /\ messages' = Append(messages, Message(RoleUser, input))
          /\ payload' = [body |-> build_request_body(messages'),
                         before |-> messages', after |-> messages']
    /\ pc' = "generate"
    /\ ops' = ops + 1
    /\ UNCHANGED <<next_task_id, need_stream>>
    /\ answer' = None
    /\ text_calls' = <<>>
    /\ clean_answer' = <<>>
    /\ tasks' = <<>>
    /\ completed' = <<>>
    /\ invocations' = 0
    /\ results' = <<>>
    /\ errors' = <<>>
    /\ ret' = None
    /\ last' = None
    /\ UNCHANGED <<usage, tools_schema, rendered>>

SetTools == set_tools(MaxOps)

GetToolAnswer == get_tool_answer(MaxOps)

\* Err(ExtractFunctionCall(..)), what get_tool_answer maps a failed get_answer to
ExtractFunctionCallErr(cause) == [kind |-> "Err", error |-> "ExtractFunctionCall", cause |-> cause]
\* Ok((answer, results))
OkAnswer(ans, res) == [kind |-> "Ok", answer |-> ans, results |-> res]

\* the plan as it would be if an answer without directives were dispatched
\* whole as one call instead of being returned
tool_answer_plan_whole_answer_as_call(ans) ==
    LET calls == extract_tool_uses(ans) IN
    IF calls = <<>>
    THEN [done |-> FALSE, calls |-> <<ans>>, clean |-> ans]
    ELSE [done |-> FALSE, calls |-> calls, clean |-> strip_directives(ans, calls)]

\* get_tool_answer between the answer and the spawning: extraction, the early
\* return when no directive is found, and the stripping fold
tool_answer_plan(ans) ==
    LET calls == extract_tool_uses(ans) IN
    IF calls = <<>>
    THEN [done |-> TRUE, calls |-> calls, clean |-> ans]
    ELSE [done |-> FALSE, calls |-> calls, clean |-> strip_directives(ans, calls)]

\* the Generate exchange fails in send_request: nothing but the error is kept
GenerateFails ==
    /\ pc = "generate"
    /\ \E cause \in GenerateFailures : ret' = ExtractFunctionCallErr(cause)
    /\ pc' = "returned"
    /\ UNCHANGED <<messages, usage, tools_schema, payload, rendered, last, answer, text_calls,
                   clean_answer, tasks, completed, invocations, results, errors, ops,
                   next_task_id, need_stream>>

\* the Generate exchange as it would be if the stripped answer were what is
\* stored
GenerateResponse_stores_clean(answers) ==
    /\ pc = "generate"
    /\ \E t \in ModelTokens : usage' = AddI32(usage, AsI32(t))
    /\ \E content \in answers :
          LET plan == tool_answer_plan(content) IN
          /\ messages' = Append(messages, Message(RoleAssistant, plan.clean))
          /\ answer' = [text |-> content]
          /\ text_calls' = plan.calls
          /\ clean_answer' = plan.clean
          /\ IF plan.done
             THEN /\ ret' = OkAnswer(plan.clean, results)
                  /\ pc' = "returned"
             ELSE /\ ret' = ret
                  /\ pc' = "spawning"
    /\ UNCHANGED <<tools_schema, payload, rendered, last, tasks, completed, invocations,
                   results, errors, ops, next_task_id, need_stream>>

\* the Generate exchange succeeds with an answer of `answers`: the tokens are
\* counted, the answer is pushed as an Assistant message, the directives are
\* extracted and stripped; without directives get_tool_answer returns here
GenerateResponse(answers) ==
    /\ pc = "generate"
    /\ \E t \in ModelTokens : usage' = AddI32(usage, AsI32(t))
    /\ \E content \in answers :
          LET plan == tool_answer_plan(content) IN
          /\ messages' = Append(messages, Message(RoleAssistant, content))
          /\ answer' = [text |-> content]
          /\ text_calls' = plan.calls
          /\ clean_answer' = plan.clean
          /\ IF plan.done
             THEN /\ ret' = OkAnswer(plan.clean, results)
                  /\ pc' = "returned"
             ELSE /\ ret' = ret
                  /\ pc' = "spawning"
    /\ UNCHANGED <<tools_schema, payload, rendered, last, tasks, completed, invocations,
                   results, errors, ops, next_task_id, need_stream>>

\* how many ids the runtime's counter has given to others (its worker threads,
\* the tasks that are running, the other tasks of the process) since the last
\* spawn the session saw: none, one, or many
IdGaps == {0, 1, 16928}

\* the ids the behaviours let the runtime give the next task, of the ids
\* task_spawn admits
NextTaskIds == {next_task_id + gap : gap \in IdGaps}

\* the spawning as it would be if the owner went on to await a task as soon
\* as it was spawned
SpawnTask_await_first ==
    \E id \in NextTaskIds :
        /\ pc = "spawning"
        /\ tasks' = Append(tasks, [st |-> "spawned", id |-> id,
                                   call |-> text_calls[Len(tasks) + 1],
                                   request |-> None, base |-> None, out |-> None])
        /\ pc' = "joining"
        /\ next_task_id' = id + 1
        /\ UNCHANGED <<messages, usage, tools_schema, payload, rendered, last, answer,
                       text_calls, clean_answer, completed, invocations, results, errors,
                       ret, ops, need_stream>>

\* task::spawn of the next call text when the runtime gives the task `id`. The
\* id comes from the runtime's process-wide counter, which only grows and which
\* the runtime's worker threads, the tasks that are running and every other
\* task of the process draw from as well: it is greater than every id given
\* before, and it need not follow on the id of the task spawned before it. The
\* task owns its call text and a clone of the tools schema
task_spawn(id) ==
    /\ pc = "spawning"
    /\ id >= next_task_id
    /\ LET i == Len(tasks) + 1 IN
       /\ tasks' = Append(tasks, [st |-> "spawned", id |-> id, call |-> text_calls[i],
                                  request |-> None, base |-> None, out |-> None])
       /\ pc' = IF i = Len(text_calls) THEN "joining" ELSE "spawning"
    /\ next_task_id' = id + 1
    /\ UNCHANGED <<messages, usage, tools_schema, payload, rendered, last, answer, text_calls,
                   clean_answer, completed, invocations, results, errors, ret, ops,
                   need_stream>>

\* text_calls.into_iter().map(|c| task::spawn(..)): the next task is spawned
SpawnTask == \E id \in NextTaskIds : task_spawn(id)

\* a spawned task runs get_function up to its suspension: it builds its own
\* BaseChat (the unwrap of the configuration lookup may panic), pushes the
\* call text to it as a User message and sends the secondary invocation
TaskStart(i) ==
    /\ tasks[i].st = "spawned"
    /\ \/ /\ tasks' = [tasks EXCEPT ![i].st = "awaiting",
                                    ![i].request = get_function_request(tasks[i].call, tools_schema),
                                    ![i].base = [messages |-> <<Message(RoleUser, tasks[i].call)>>,
                                                 usage |-> 0]]
          /\ invocations' = invocations + 1
          /\ UNCHANGED completed
       \/ /\ tasks' = [tasks EXCEPT ![i].st = "finished", ![i].out = ConfigPanic]
          /\ completed' = Append(completed, i)
          /\ UNCHANGED invocations
    /\ UNCHANGED <<messages, usage, tools_schema, payload, rendered, last, pc, answer, text_calls,
                   clean_answer, results, errors, ret, ops, next_task_id, need_stream>>

\* the counter of the task's own BaseChat after the secondary invocation has
\* answered `res` carrying t as total_tokens
task_usage(u, res, t) == IF res.ok THEN AddI32(u, AsI32(t)) ELSE u

\* a task as it would be if get_function ran on the caller's session: the call
\* text and the tokens of the secondary invocation go to the caller's store
\* and counter
TaskFinish_on_caller_session(i) ==
    /\ tasks[i].st = "awaiting"
    /\ \E res \in ModelResolutions, tool \in ModelToolBehaviours, t \in ModelTokens :
          /\ tasks' = [tasks EXCEPT ![i].st = "finished",
                                    ![i].out = process_tool_call(res, tool)]
          /\ usage' = task_usage(usage, res, t)
    /\ messages' = Append(messages, Message(RoleUser, tasks[i].call))
    /\ completed' = Append(completed, i)
    /\ UNCHANGED <<tools_schema, payload, rendered, last, pc, answer, text_calls,
                   clean_answer, invocations, results, errors, ret, ops, next_task_id, need_stream>>

\* the secondary invocation answers, its tokens are counted on the task's own
\* BaseChat, and the task runs the rest of process_tool_call to its end
TaskFinish(i) ==
    /\ tasks[i].st = "awaiting"
    /\ \E res \in ModelResolutions, tool \in ModelToolBehaviours, t \in ModelTokens :
          tasks' = [tasks EXCEPT ![i].st = "finished",
                                 ![i].out = process_tool_call(res, tool),
                                 ![i].base.usage = task_usage(@, res, t)]
    /\ completed' = Append(completed, i)
    /\ UNCHANGED <<messages, usage, tools_schema, payload, rendered, last, pc, answer, text_calls,
                   clean_answer, invocations, results, errors, ret, ops, next_task_id, need_stream>>

\* format!("{:?}", e) of the JoinError of a panicked task: the id the runtime
\* gave the task and the panic message
JoinErrorDebug(id, msg) ==
    "JoinError::Panic(Id(" \o ToString(id) \o "), " \o str_debug(msg) \o ", ...)"

\* what the join loop pushes to `results` for call i (numbered from 0 in the
\* messages) whose task ended with `out`
join_result(i, out) ==
    CASE out.kind = "Ok" -> out.text
      [] out.kind = "Err" -> "{\"error\": \"Tool call failed with error: " \o out.text \o "\"}"
      [] OTHER -> "{\"error\": \"Task execution failed: Task join error for call #"
                  \o ToString(i - 1) \o ": "
                  \o JoinErrorDebug(tasks[i].id, out.text) \o "\"}"

\* what the join loop pushes to `errors`
join_error(i, out) ==
    CASE out.kind = "Ok" -> <<>>
      [] out.kind = "Err" -> <<"Tool call #" \o ToString(i - 1) \o " failed: " \o out.text>>
      [] OTHER -> <<"Task join error for call #" \o ToString(i - 1) \o ": "
                    \o JoinErrorDebug(tasks[i].id, out.text)>>

\* the join as it would be if outcomes were collected as the tasks finish
JoinTask_completion_order ==
    /\ pc = "joining"
    /\ Len(completed) > Len(results)
    /\ LET i == completed[Len(results) + 1] IN
       /\ results' = Append(results, join_result(i, tasks[i].out))
       /\ errors' = errors \o join_error(i, tasks[i].out)
       /\ IF Len(results') = Len(tasks)
          THEN /\ ret' = OkAnswer(clean_answer, results')
               /\ pc' = "returned"
          ELSE UNCHANGED <<ret, pc>>
    /\ UNCHANGED <<messages, usage, tools_schema, payload, rendered, last, answer, text_calls,
                   clean_answer, tasks, completed, invocations, ops, next_task_id, need_stream>>

\* the join as it would be if the Err of a call were propagated with `?`
JoinTask_propagate_err ==
    /\ pc = "joining"
    /\ LET i == Len(results) + 1 IN
       /\ tasks[i].st = "finished"
       /\ IF tasks[i].out.kind = "Err"
          THEN /\ ret' = [kind |-> "Err", error |-> tasks[i].out.why, cause |-> ""]
               /\ pc' = "returned"
               /\ UNCHANGED <<results, errors>>
          ELSE /\ results' = Append(results, join_result(i, tasks[i].out))
               /\ errors' = errors \o join_error(i, tasks[i].out)
               /\ IF i = Len(tasks)
                  THEN /\ ret' = OkAnswer(clean_answer, results')
                       /\ pc' = "returned"
                  ELSE UNCHANGED <<ret, pc>>
    /\ UNCHANGED <<messages, usage, tools_schema, payload, rendered, last, answer, text_calls,
                   clean_answer, tasks, completed, invocations, ops, next_task_id, need_stream>>

\* the join as it would be if a JoinError ended the loop
JoinTask_break_on_join_error ==
    /\ pc = "joining"
    /\ LET i == Len(results) + 1 IN
       /\ tasks[i].st = "finished"
       /\ results' = Append(results, join_result(i, tasks[i].out))
       /\ errors' = errors \o join_error(i, tasks[i].out)
       /\ IF i = Len(tasks) \/ tasks[i].out.kind = "Panic"
          THEN /\ ret' = OkAnswer(clean_answer, results')
               /\ pc' = "returned"
          ELSE UNCHANGED <<ret, pc>>
    /\ UNCHANGED <<messages, usage, tools_schema, payload, rendered, last, answer, text_calls,
                   clean_answer, tasks, completed, invocations, ops, next_task_id, need_stream>>

\* one iteration of the join loop: task.await of the next task in spawn order,
\* which suspends until that task has finished; its outcome is pushed, and after
\* the last task get_tool_answer returns Ok((clean_answer, results))
JoinTask ==
    /\ pc = "joining"
    /\ LET i == Len(results) + 1 IN
       /\ tasks[i].st = "finished"
       /\ results' = Append(results, join_result(i, tasks[i].out))
       /\ errors' = errors \o join_error(i, tasks[i].out)
       /\ IF i = Len(tasks)
          THEN /\ ret' = OkAnswer(clean_answer, results')
               /\ pc' = "returned"
          ELSE UNCHANGED <<ret, pc>>
    /\ UNCHANGED <<messages, usage, tools_schema, payload, rendered, last, answer, text_calls,
                   clean_answer, tasks, completed, invocations, ops, next_task_id, need_stream>>

----------------------------------------------------------------------------
(* Exchanges: send_request, process_request and the answers built on them. *)

\* the statuses ureq reports as Err(StatusCode(code)): with the defaults the
\* request is sent with, the 4xx and 5xx ones
StatusCodes == {404, 500}
\* a status that is not 2xx and that ureq does not report as an error: the
\* response comes back as Ok(res), as a 2xx one does
NotModified == 304

\* usage.total_tokens of a response body: the member is absent, is a JSON value
\* that is not an integer (1.5), or is an integer
TokensAbsent == [json |-> "absent"]
TokensFloat == [json |-> "float"]
TokensInt(x) == [json |-> "int", value |-> x]

\* Value::as_i64 of usage.total_tokens: Some for an integer only
as_i64(v) == IF v.json = "int" THEN [some |-> TRUE, value |-> v.value] ELSE [some |-> FALSE]

\* the integers the session's responses carry: 7, 2^31 - 1 and 2^31
SessionTokens == {I64(0, 7), I64(0, MaxI32), I64(0, MinI32)}

\* the text contents the session's responses carry
SessionContents == {<<"y", "e", "s">>}

\* what the transport gives one send_json: Err(StatusCode(code)), another Err,
\* or Ok(res), res having a status and a body: a body that is not JSON, a JSON
\* body with text but without an integer total_tokens, or a JSON body with an
\* integer total_tokens and text. A JSON body is given with its
\* usage.total_tokens and its choices[0].message.content ([text |-> ..], or
\* None when the body has no text there)
Body(total_tokens, content) ==
    [t |-> "body", status |-> 200, json |-> TRUE, total_tokens |-> total_tokens,
     content |-> content]
NotJson(status) == [t |-> "body", status |-> status, json |-> FALSE]
StatusError(code) == [t |-> "status", code |-> code]
TransportFailure == [t |-> "failure"]
SessionResponses ==
    {StatusError(c) : c \in StatusCodes}
    \cup {TransportFailure, NotJson(200), NotJson(NotModified)}
    \cup {Body(tk, [text |-> c]) :
             tk \in {TokensAbsent, TokensFloat} \cup {TokensInt(x) : x \in SessionTokens},
             c \in SessionContents}

\* a Result as the caller sees it
OkValue(v) == [kind |-> "Ok", value |-> v]
ChatErr(e) == [kind |-> "Err", error |-> e]
HttpError(code) == [kind |-> "Err", error |-> "HttpError", code |-> code]
\* the panic of `+=` on an i32 in a build with overflow checks
OverflowPanic == [kind |-> "Panic", why |-> "attempt to add with overflow"]

\* whether a + b leaves the i32 range
Overflows(a, b) == (b > 0 /\ a > MaxI32 - b) \/ (b < 0 /\ a < MinI32 - b)

\* send_request as it would be if a missing total_tokens counted as zero
send_request_default_zero(u, resp, overflow_checks) ==
    CASE resp.t = "status" -> [result |-> HttpError(resp.code), usage |-> u, attempts |-> 1]
      [] resp.t = "failure" -> [result |-> ChatErr("UnknownError"), usage |-> u, attempts |-> 1]
      [] resp.t = "body" /\ ~resp.json ->
            [result |-> ChatErr("ParseResponseError"), usage |-> u, attempts |-> 1]
      [] OTHER ->
            LET n == as_i64(resp.total_tokens) IN
            IF ~n.some
            THEN [result |-> OkValue(resp), usage |-> u, attempts |-> 1]
            ELSE IF Overflows(u, AsI32(n.value)) /\ overflow_checks
            THEN [result |-> OverflowPanic, usage |-> u, attempts |-> 1]
            ELSE [result |-> OkValue(resp), usage |-> AddI32(u, AsI32(n.value)), attempts |-> 1]

\* BaseChat::send_request on a session whose counter is u, the transport
\* answering resp to the one send_json: the Result, the counter afterwards and
\* the number of transport attempts. `self.usage += .. as i32` keeps the low 32
\* bits of the i64; when the sum leaves the i32 range a build with overflow
\* checks panics and a build without them wraps
send_request(u, resp, overflow_checks) ==
    CASE resp.t = "status" -> [result |-> HttpError(resp.code), usage |-> u, attempts |-> 1]
      [] resp.t = "failure" -> [result |-> ChatErr("UnknownError"), usage |-> u, attempts |-> 1]
      [] resp.t = "body" /\ ~resp.json ->
            [result |-> ChatErr("ParseResponseError"), usage |-> u, attempts |-> 1]
      [] OTHER ->
            LET n == as_i64(resp.total_tokens) IN
            IF ~n.some
            THEN [result |-> ChatErr("MissingUsageData"), usage |-> u, attempts |-> 1]
            ELSE IF Overflows(u, AsI32(n.value)) /\ overflow_checks
            THEN [result |-> OverflowPanic, usage |-> u, attempts |-> 1]
            ELSE [result |-> OkValue(resp), usage |-> AddI32(u, AsI32(n.value)), attempts |-> 1]

\* BaseChat::get_content_from_resp: choices[0].message.content of the response
\* get_response returned, as text. It returns a Result; no failure of this step
\* is described, and the responses given to it carry a text there
get_content_from_resp(body) == OkValue(body.content.text)

\* a chunk of a streamed response: an event carrying a content fragment, or one
\* that does not parse
Fragment(text) == [parses |-> TRUE, content |-> text]
Garbage == [parses |-> FALSE]
\* a streamed response: its chunks in arrival order and how it ended, by its
\* end marker or the close of the connection ("end"), or by failing ("failed")
Stream(chunks, ended) == [t |-> "stream", chunks |-> chunks, ended |-> ended]
StreamChunks ==
    {<<>>, <<Garbage>>, <<Fragment(<<"y">>), Garbage, Fragment(<<"e", "s">>)>>}
\* what the transport gives the request of a streaming session: an error, a
\* stream that ends, or a stream that fails before any content (what a stream
\* that fails after some content gives is not among the inputs)
StreamResponses ==
    {StatusError(c) : c \in StatusCodes} \cup {TransportFailure}
    \cup {Stream(chunks, "end") : chunks \in StreamChunks}
    \cup {Stream(chunks, "failed") : chunks \in {<<>>, <<Garbage>>}}

\* BaseChat::get_stream_response: the request is sent and the open stream is
\* handed back, or the error of the transport
get_stream_response(resp) ==
    CASE resp.t = "status" -> HttpError(resp.code)
      [] resp.t = "failure" -> ChatErr("UnknownError")
      [] OTHER -> OkValue(resp)

\* the content fragments of the chunks that parse, in arrival order
RECURSIVE StreamContent(_)
StreamContent(chunks) ==
    IF chunks = <<>> THEN <<>>
    ELSE (IF Head(chunks).parses THEN Head(chunks).content ELSE <<>>)
         \o StreamContent(Tail(chunks))

\* BaseChat::get_content_from_stream_resp(stream, permit): the fragments are
\* concatenated and the chunks that do not parse are skipped; a stream that
\* failed before it produced any content is a ParseResponseError. It is given
\* no session, so it leaves the usage counter alone
get_content_from_stream_resp(stream) ==
    IF stream.ended = "failed" /\ StreamContent(stream.chunks) = <<>>
    THEN ChatErr("ParseResponseError")
    ELSE OkValue(StreamContent(stream.chunks))

\* process_request as it would be if the answer were returned without being stored
process_request_no_store(store, u, resp, overflow_checks) ==
    IF need_stream
    THEN LET stream == get_stream_response(resp) IN
         IF stream.kind # "Ok"
         THEN [result |-> stream, messages |-> store, usage |-> u, attempts |-> 1,
               sent |-> store]
         ELSE [result |-> get_content_from_stream_resp(stream.value), messages |-> store,
               usage |-> u, attempts |-> 1, sent |-> store]
    ELSE
    LET sent == send_request(u, resp, overflow_checks) IN
    IF sent.result.kind # "Ok"
    THEN [result |-> sent.result, messages |-> store, usage |-> sent.usage,
          attempts |-> sent.attempts, sent |-> store]
    ELSE LET content == get_content_from_resp(sent.result.value) IN
         [result |-> content, messages |-> store, usage |-> sent.usage,
          attempts |-> sent.attempts, sent |-> store]

\* SingleChat::process_request on the store and counter given. On a streaming
\* session the stream is opened and its content collected; otherwise the
\* response is fetched and its content extracted. An error of either step is
\* returned as it is; the content is pushed as an Assistant message and
\* returned. `sent` is the store the request was built from
process_request(store, u, resp, overflow_checks) ==
    IF need_stream
    THEN LET stream == get_stream_response(resp) IN
         IF stream.kind # "Ok"
         THEN [result |-> stream, messages |-> store, usage |-> u, attempts |-> 1,
               sent |-> store]
         ELSE LET content == get_content_from_stream_resp(stream.value) IN
              IF content.kind # "Ok"
              THEN [result |-> content, messages |-> store, usage |-> u, attempts |-> 1,
                    sent |-> store]
              ELSE [result |-> content,
                    messages |-> Append(store, Message(RoleAssistant, content.value)),
                    usage |-> u, attempts |-> 1, sent |-> store]
    ELSE
    LET sent == send_request(u, resp, overflow_checks) IN
    IF sent.result.kind # "Ok"
    THEN [result |-> sent.result, messages |-> store, usage |-> sent.usage,
          attempts |-> sent.attempts, sent |-> store]
    ELSE LET content == get_content_from_resp(sent.result.value) IN
         IF content.kind # "Ok"
         THEN [result |-> content, messages |-> store, usage |-> sent.usage,
               attempts |-> sent.attempts, sent |-> store]
         ELSE [result |-> content,
               messages |-> Append(store, Message(RoleAssistant, content.value)),
               usage |-> sent.usage, attempts |-> sent.attempts, sent |-> store]

\* get_answer as it would be if a failed exchange took its User message back
get_answer_rolls_back(store, u, input, resp, overflow_checks) ==
    LET r == process_request(Append(store, Message(RoleUser, input)), u, resp, overflow_checks) IN
    IF r.result.kind = "Err" THEN [r EXCEPT !.messages = store] ELSE r

\* SingleChat::get_answer / get_answer_with_end_path: the User message is
\* pushed, then the exchange runs
get_answer(store, u, input, resp, overflow_checks) ==
    process_request(Append(store, Message(RoleUser, input)), u, resp, overflow_checks)

\* SingleChat::get_answer_again: the exchange runs on the store as it is
get_answer_again(store, u, resp, overflow_checks) ==
    process_request(store, u, resp, overflow_checks)

\* assemble_output_description(schema): the text of the System message
\* get_json_answer adds
OutputDescription == <<"j", "s", "o", "n">>

\* the contents the second, schema-constrained invocation answers with: a JSON
\* text that deserializes into T, and one that does not
JsonText == <<"{", "}">>
BrokenJsonText == <<"{">>
\* serde_json::from_str::<T> of the second response's content
from_str_T(content) == IF content = JsonText THEN OkValue("T") ELSE ChatErr("serde_json::Error")

\* what the transport answers the second invocation
SecondResponses ==
    {StatusError(500)}
    \cup {Body(TokensInt(tk), c) : tk \in ModelTokens,
                                   c \in {[text |-> JsonText], [text |-> BrokenJsonText], None}}

\* ChatTool::get_json(text_answer, schema): a BaseChat of its own is built (the
\* unwrap of the configuration lookup may panic), the answer is pushed to it as
\* a User message, the request is sent, the content is pushed as an Assistant
\* message and deserialized; every error is given the context GetJsonError.
\* `base` is that BaseChat when get_json ends
get_json(text_answer, config_ok, resp, overflow_checks) ==
    IF ~config_ok
    THEN [result |-> [kind |-> "Panic", why |-> unwrap_failed(str_debug(ConfigError))],
          base |-> None]
    ELSE LET asked == <<Message(RoleUser, text_answer)>>
             sent == send_request(0, resp, overflow_checks) IN
         IF sent.result.kind = "Panic"
         THEN [result |-> sent.result, base |-> [messages |-> asked, usage |-> sent.usage]]
         ELSE IF sent.result.kind # "Ok" \/ resp.content = None
         THEN [result |-> ChatErr("GetJsonError"),
               base |-> [messages |-> asked, usage |-> sent.usage]]
         ELSE [result |-> IF from_str_T(resp.content.text).kind = "Ok"
                          THEN from_str_T(resp.content.text) ELSE ChatErr("GetJsonError"),
               base |-> [messages |-> Append(asked, Message(RoleAssistant, resp.content.text)),
                         usage |-> sent.usage]]

\* get_json_answer as it would be if the second pass ran on the caller's session
get_json_answer_on_caller_session(store, u, input, schema_ok, resp, overflow_checks, config_ok, resp2) ==
    IF ~schema_ok
    THEN [result |-> ChatErr("AssembleOutputDescriptionError"), messages |-> store,
          usage |-> u, attempts |-> 0, sent |-> store, second |-> None]
    ELSE LET described == Append(store, Message(RoleSystem, OutputDescription))
             first == get_answer(described, u, input, resp, overflow_checks) IN
         IF first.result.kind # "Ok"
         THEN [result |-> first.result, messages |-> first.messages, usage |-> first.usage,
               attempts |-> first.attempts, sent |-> first.sent, second |-> None]
         ELSE LET j == get_json(first.result.value, config_ok, resp2, overflow_checks) IN
              IF j.base = None
              THEN [result |-> j.result, messages |-> first.messages, usage |-> first.usage,
                    attempts |-> first.attempts, sent |-> first.sent, second |-> j.base]
              ELSE [result |-> j.result, messages |-> first.messages \o j.base.messages,
                    usage |-> AddI32(first.usage, j.base.usage),
                    attempts |-> first.attempts, sent |-> first.sent, second |-> j.base]

\* SingleChat::get_json_answer: the output description is assembled (or the
\* call ends with AssembleOutputDescriptionError) and pushed as a System
\* message, get_answer runs the free-form exchange, and get_json reformats its
\* answer on a session of its own
get_json_answer(store, u, input, schema_ok, resp, overflow_checks, config_ok, resp2) ==
    IF ~schema_ok
    THEN [result |-> ChatErr("AssembleOutputDescriptionError"), messages |-> store,
          usage |-> u, attempts |-> 0, sent |-> store, second |-> None]
    ELSE LET described == Append(store, Message(RoleSystem, OutputDescription))
             first == get_answer(described, u, input, resp, overflow_checks) IN
         IF first.result.kind # "Ok"
         THEN [result |-> first.result, messages |-> first.messages, usage |-> first.usage,
               attempts |-> first.attempts, sent |-> first.sent, second |-> None]
         ELSE LET j == get_json(first.result.value, config_ok, resp2, overflow_checks) IN
              [result |-> j.result, messages |-> first.messages, usage |-> first.usage,
               attempts |-> first.attempts, sent |-> first.sent, second |-> j.base]

\* the variables of get_tool_answer's dispatch
dispatch_vars == <<pc, answer, text_calls, clean_answer, tasks, completed,
                   invocations, results, errors, ret>>

\* the locals and the return value of an earlier get_tool_answer are gone
ForgetDispatch ==
    /\ pc' = "idle"
    /\ answer' = None
    /\ text_calls' = <<>>
    /\ clean_answer' = <<>>
    /\ tasks' = <<>>
    /\ completed' = <<>>
    /\ invocations' = 0
    /\ results' = <<>>
    /\ errors' = <<>>
    /\ ret' = None

\* what `last` keeps of a completed call
Completed(op, input, resp, r) ==
    [op |-> op, input |-> input, resp |-> resp, before |-> messages,
     usage_before |-> usage, sent |-> r.sent, attempts |-> r.attempts,
     result |-> r.result, after |-> r.messages, usage_after |-> r.usage]

\* what the transport gives the request of an exchange of the session
Responses == IF need_stream THEN StreamResponses ELSE SessionResponses

\* the response is one the exchange gets an answer from: a stream with content
\* or a proper end, or a body send_request and get_content_from_resp accept
HasAnswer(resp) ==
    \/ /\ resp.t = "stream"
       /\ get_content_from_stream_resp(resp).kind = "Ok"
    \/ /\ resp.t = "body"
       /\ resp.json
       /\ as_i64(resp.total_tokens).some
       /\ resp.content # None

\* a caller running BaseChat::send_request on its own, through the public
\* field `base`, with the body build_request_body gives: the tokens of an
\* accepted response are counted and the store is left alone
SendRequest ==
    /\ Idle
    /\ ops < MaxExchanges
    /\ \E resp \in SessionResponses, overflow_checks \in BOOLEAN :
          LET r == send_request(usage, resp, overflow_checks) IN
          /\ usage' = r.usage
          /\ payload' = [body |-> build_request_body(messages), before |-> messages,
                         after |-> messages]
          /\ last' = Completed("send_request", <<>>, resp,
                                [result |-> r.result, messages |-> messages, usage |-> r.usage,
                                 attempts |-> r.attempts, sent |-> messages])
    /\ messages' = messages
    /\ ops' = ops + 1
    /\ UNCHANGED <<next_task_id, need_stream>>
    /\ ForgetDispatch
    /\ UNCHANGED <<tools_schema, rendered>>

\* a caller running get_answer to its end
GetAnswer ==
    /\ Idle
    /\ ops < MaxExchanges
    /\ \E input \in ModelInputs, resp \in Responses, overflow_checks \in BOOLEAN :
          LET r == get_answer(messages, usage, input, resp, overflow_checks) IN
          /\ messages' = r.messages
          /\ usage' = r.usage
          /\ payload' = [body |-> build_request_body(r.sent), before |-> r.sent,
                         after |-> r.sent]
          /\ last' = Completed("get_answer", input, resp, r)
    /\ ops' = ops + 1
    /\ UNCHANGED <<next_task_id, need_stream>>
    /\ ForgetDispatch
    /\ UNCHANGED <<tools_schema, rendered>>

\* a caller running get_answer_again to its end
GetAnswerAgain ==
    /\ Idle
    /\ ops < MaxExchanges
    /\ \E resp \in Responses, overflow_checks \in BOOLEAN :
          LET r == get_answer_again(messages, usage, resp, overflow_checks) IN
          /\ messages' = r.messages
          /\ usage' = r.usage
          /\ payload' = [body |-> build_request_body(r.sent), before |-> r.sent,
                         after |-> r.sent]
          /\ last' = Completed("get_answer_again", <<>>, resp, r)
    /\ ops' = ops + 1
    /\ UNCHANGED <<next_task_id, need_stream>>
    /\ ForgetDispatch
    /\ UNCHANGED <<tools_schema, rendered>>

\* a caller running get_json_answer to its end
GetJsonAnswer ==
    /\ Idle
    /\ ops < MaxExchanges
    /\ \E input \in ModelInputs, schema_ok \in BOOLEAN, overflow_checks \in BOOLEAN :
       \E resp \in IF schema_ok THEN Responses ELSE {None} :
       \E config_ok \in IF schema_ok /\ HasAnswer(resp) THEN BOOLEAN ELSE {TRUE} :
       \E resp2 \in IF schema_ok /\ HasAnswer(resp) /\ config_ok
                     THEN SecondResponses ELSE {None} :
          LET r == get_json_answer(messages, usage, input, schema_ok, resp, overflow_checks,
                                   config_ok, resp2) IN
          /\ messages' = r.messages
          /\ usage' = r.usage
          /\ payload' = IF schema_ok
                        THEN [body |-> build_request_body(r.sent), before |-> r.sent,
                              after |-> r.sent]
                        ELSE payload
          /\ last' = Completed("get_json_answer", input, resp, r)
                        @@ [second |-> r.second, resp2 |-> resp2]
    /\ ops' = ops + 1
    /\ UNCHANGED <<next_task_id, need_stream>>
    /\ ForgetDispatch
    /\ UNCHANGED <<tools_schema, rendered>>

\* the Generate exchange of get_tool_answer in a build with overflow checks,
\* when counting the response's tokens leaves the i32 range: send_request
\* panics and get_tool_answer ends there
GenerateOverflowPanic ==
    /\ pc = "generate"
    /\ \E t \in ModelTokens : Overflows(usage, AsI32(t))
    /\ ret' = OverflowPanic
    /\ pc' = "returned"
    /\ UNCHANGED <<messages, usage, tools_schema, payload, rendered, last, answer, text_calls,
                   clean_answer, tasks, completed, invocations, results, errors, ops,
                   next_task_id, need_stream>>

\* the argument strings and function objects process_tool_call is applied to
\* on its own: every kind of JSON value, and a text that is not JSON; a member
\* is a string (the string "null" among them), Null, or a number
ProbeArgStrings == {"{}", "[1]", "1", "\"s\"", "true", "null", "{"}
ProbeNames == ModelNames \cup {"null"}
JNumber(n) == [num |-> n]
ProbeResolutions ==
    {[ok |-> FALSE, fc |-> [name |-> JNull, arguments |-> JNull]]}
    \cup {[ok |-> TRUE, fc |-> fc] :
             fc \in [name : {JString(n) : n \in ProbeNames} \cup {JNull, JNumber(1)},
                     arguments : {JString(a) : a \in ProbeArgStrings} \cup {JNull, JNumber(1)}]}

\* process_tool_call's validation and invocation applied to what get_function
\* answered
ProcessToolCall ==
    /\ last # None
    /\ last.op = "process_tool_call"
    /\ last.out = None
    /\ last' = [last EXCEPT !.out = process_tool_call(last.res, last.tool)]
    /\ UNCHANGED <<messages, usage, tools_schema, payload, rendered>>
    /\ UNCHANGED pipeline_vars

----------------------------------------------------------------------------
(* Specifications. *)

\* the session with the tool-call pipeline and its dispatch tasks
Next ==
    \/ SetTools
    \/ GetToolAnswer
    \/ GenerateFails
    \/ GenerateResponse(ModelAnswers)
    \/ SpawnTask
    \/ \E i \in 1..Len(tasks) : TaskStart(i)
    \/ \E i \in 1..Len(tasks) : TaskFinish(i)
    \/ JoinTask

Spec == Init /\ [][Next]_vars

\* the store and its rendering
NextRender ==
    \/ AddMessage
    \/ Render
    \/ BuildRequestBody

SpecRender == Init /\ [][NextRender]_vars

\* the tool-call pipeline when the runtime keeps running what can run: the
\* owner's spawn and join steps, and every spawned task until it has finished
RunTask(i) == i \in 1..Len(tasks) /\ (TaskStart(i) \/ TaskFinish(i))

SpecFair ==
    /\ Spec
    /\ WF_vars(SpawnTask)
    /\ WF_vars(JoinTask)
    /\ \A i \in 1..(MaxCalls + 1) : WF_vars(RunTask(i))

\* extraction and stripping as get_tool_answer applies them to an answer, over
\* every answer made of segments
InitStrip ==
    /\ messages = <<>>
    /\ usage = 0
    /\ tools_schema = <<>>
    /\ payload = None
    /\ rendered = None
    /\ last = None
    /\ pc = "answer"
    /\ answer \in {[text |-> a] : a \in SegmentAnswers}
    /\ text_calls = <<>>
    /\ clean_answer = <<>>
    /\ tasks = <<>>
    /\ completed = <<>>
    /\ invocations = 0
    /\ results = <<>>
    /\ errors = <<>>
    /\ ret = None
    /\ ops = 0
    /\ next_task_id = 1
    /\ need_stream = FALSE

ApplyPlan ==
    /\ pc = "answer"
    /\ LET plan == tool_answer_plan(answer.text) IN
       /\ text_calls' = plan.calls
       /\ clean_answer' = plan.clean
       /\ pc' = IF plan.done THEN "returned" ELSE "spawning"
       /\ ret' = IF plan.done THEN OkAnswer(plan.clean, results) ELSE ret
    /\ UNCHANGED <<messages, usage, tools_schema, payload, rendered, last, answer, tasks,
                   completed, invocations, results, errors, ops, next_task_id, need_stream>>

NextStrip == ApplyPlan

SpecStrip == InitStrip /\ [][NextStrip]_vars

\* the session under every operation of SingleChat; the answers of its
\* get_tool_answer carry at most one directive
SessionToolAnswers == {AnswerWith(0), AnswerWith(1)}
SessionContent == <<"h", "i">>

NextSession ==
    \/ add_message(RoleSystem, SessionContent)
    \/ set_tools(MaxExchanges)
    \/ SendRequest
    \/ GetAnswer
    \/ GetAnswerAgain
    \/ GetJsonAnswer
    \/ get_tool_answer(MaxExchanges)
    \/ GenerateFails
    \/ GenerateResponse(SessionToolAnswers)
    \/ GenerateOverflowPanic
    \/ SpawnTask
    \/ \E i \in 1..Len(tasks) : TaskStart(i)
    \/ \E i \in 1..Len(tasks) : TaskFinish(i)
    \/ JoinTask

SpecSession == Init /\ [][NextSession]_vars

\* the exchanges of a session constructed with either value of need_stream
InitExchange ==
    /\ messages = <<>>
    /\ usage = 0
    /\ tools_schema = <<>>
    /\ payload = None
    /\ rendered = None
    /\ last = None
    /\ pc = "idle"
    /\ answer = None
    /\ text_calls = <<>>
    /\ clean_answer = <<>>
    /\ tasks = <<>>
    /\ completed = <<>>
    /\ invocations = 0
    /\ results = <<>>
    /\ errors = <<>>
    /\ ret = None
    /\ ops = 0
    /\ next_task_id = 1
    /\ need_stream \in BOOLEAN

NextExchange ==
    \/ add_message(RoleSystem, SessionContent)
    \/ GetAnswer
    \/ GetAnswerAgain

SpecExchange == InitExchange /\ [][NextExchange]_vars

\* process_tool_call over every function object and tool behaviour
InitCall ==
    /\ messages = <<>>
    /\ usage = 0
    /\ tools_schema = <<>>
    /\ payload = None
    /\ rendered = None
    /\ last \in {[op |-> "process_tool_call", res |-> res, tool |-> tool, out |-> None] :
                   res \in ProbeResolutions, tool \in ModelToolBehaviours}
    /\ pc = "idle"
    /\ answer = None
    /\ text_calls = <<>>
    /\ clean_answer = <<>>
    /\ tasks = <<>>
    /\ completed = <<>>
    /\ invocations = 0
    /\ results = <<>>
    /\ errors = <<>>
    /\ ret = None
    /\ ops = 0
    /\ next_task_id = 1
    /\ need_stream = FALSE

NextCall == ProcessToolCall

SpecCall == InitCall /\ [][NextCall]_vars

----------------------------------------------------------------------------
(* Properties of the tool-call pipeline. *)

\* get_tool_answer has returned after its Generate exchange produced an answer
ReturnedWithAnswer == pc = "returned" /\ answer # None

\* the k of the claims: the directives extracted from the answer
NumDirectives == Len(text_calls)

\* whether the text s begins with p, and whether it ends with p (it is p, or
\* p behind some prefix)
StartsWith(s, p) == Len(s) >= Len(p) /\ SubSeq(s, 1, Len(p)) = p
EndsWith(s, p) == Len(s) >= Len(p) /\ SubSeq(s, Len(s) - Len(p) + 1, Len(s)) = p

\* whether `text` is the placeholder of a join failure for call i (numbered
\* from 0 in the text) whose task panicked with `msg`: the text names the call
\* and the panic message, and between them the id the runtime gave the task,
\* whatever that id is
IsJoinPlaceholder(text, i, msg) ==
    LET head == "{\"error\": \"Task execution failed: Task join error for call #"
                \o ToString(i - 1) \o ": JoinError::Panic(Id("
        tail == "), " \o str_debug(msg) \o ", ...)\"}"
    IN /\ Len(text) > Len(head) + Len(tail)
       /\ StartsWith(text, head)
       /\ EndsWith(text, tail)

\* whether the slot `text` is the outcome `out` of call i: the text of a call
\* that returned, the error text of a call that failed, the placeholder of a
\* task that died
IsOutcomeOf(text, i, out) ==
    CASE out.kind = "Ok" -> text = out.text
      [] out.kind = "Err" ->
            text = "{\"error\": \"Tool call failed with error: " \o out.text \o "\"}"
      [] OTHER -> IsJoinPlaceholder(text, i, out.text)

\* C1: results has exactly one entry per extracted directive, and the i-th
\* entry is the outcome of the task that was given the i-th extracted call
\* text, whatever the order in which the tasks finished and whatever ids the
\* runtime gave them.
C1_PositionalAlignment ==
    ReturnedWithAnswer =>
        /\ ret.kind = "Ok"
        /\ Len(ret.results) = NumDirectives
        /\ Len(tasks) = NumDirectives
        /\ \A i \in 1..NumDirectives :
              /\ tasks[i].call = extract_tool_uses(answer.text)[i]
              /\ IsOutcomeOf(ret.results[i], i, tasks[i].out)

\* two directives whose tasks finished in the reverse of their spawn order, with
\* different outcomes, have been joined
C1_Witness ==
    /\ ReturnedWithAnswer
    /\ NumDirectives = 2
    /\ completed = <<2, 1>>
    /\ tasks[1].out.why = "Payload"
    /\ tasks[2].out.why = "ExecutionFailed"
    /\ ret.results[1] # ret.results[2]

\* the payloads a successful tool call can serialize to
SerializedPayloads ==
    {to_string_pretty(b.value).text : b \in {x \in ModelToolBehaviours : x.kind = "ok"}}

\* C2: when exactly one of k > 1 calls names a function that is not registered
\* and every other call succeeds, there are still k results, the one at that
\* call's position is the text naming the missing function, and every other
\* position holds that call's serialized payload.
C2_PartialFailureContained ==
    ReturnedWithAnswer =>
        \A j \in 1..Len(tasks) :
            ( /\ Len(tasks) > 1
              /\ tasks[j].out.why = "NotFound"
              /\ \A i \in 1..Len(tasks) : i # j => tasks[i].out.why = "Payload" )
            => /\ ret.kind = "Ok"
               /\ Len(ret.results) = NumDirectives
               /\ ret.results[j] = "Cannot find function named '" \o tasks[j].out.name \o "'"
               /\ tasks[j].out.name \notin RegisteredTools
               /\ \A i \in 1..Len(tasks) :
                     i # j => /\ ret.results[i] = tasks[i].out.text
                              /\ ret.results[i] \in SerializedPayloads

\* the first of two calls named the unregistered function h, the second
\* succeeded
C2_Witness ==
    /\ ReturnedWithAnswer
    /\ Len(tasks) = 2
    /\ tasks[1].out.why = "NotFound"
    /\ tasks[2].out.why = "Payload"
    /\ ret.results = <<"Cannot find function named 'h'", "1">>

\* C3: once the Generate exchange has produced an answer, get_tool_answer
\* returns Ok with the stripped answer and never Err, whatever fails in the
\* calls; a failed call shows only as the error text in its own slot, and the
\* slots of the calls that did not fail hold their own texts.
C3_AlwaysOk ==
    ReturnedWithAnswer =>
        /\ ret.kind = "Ok"
        /\ ret.answer = clean_answer
        /\ Len(ret.results) = Len(tasks)
        /\ \A i \in 1..Len(tasks) :
              CASE tasks[i].out.kind = "Err" ->
                      ret.results[i] = "{\"error\": \"Tool call failed with error: "
                                       \o tasks[i].out.text \o "\"}"
                [] tasks[i].out.kind = "Panic" ->
                      IsJoinPlaceholder(ret.results[i], i, tasks[i].out.text)
                [] OTHER -> ret.results[i] = tasks[i].out.text

\* every call of a two-directive answer failed, in two different ways
C3_Witness ==
    /\ ReturnedWithAnswer
    /\ Len(tasks) = 2
    /\ tasks[1].out.why = "ParseFunctionCall"
    /\ tasks[2].out.why = "DeserializeArguments"
    /\ ret.kind = "Ok"
    /\ Len(ret.results) = 2

\* C4: a task that died leaves the join-error placeholder at its own
\* position, and its siblings are neither cancelled nor dropped: each of them
\* has run to its own outcome, which is collected at its own position.
C4_JoinFailureIsolated ==
    ReturnedWithAnswer =>
        \A i \in 1..Len(tasks) :
            tasks[i].out.kind = "Panic" =>
                /\ Len(ret.results) = Len(tasks)
                /\ IsJoinPlaceholder(ret.results[i], i, tasks[i].out.text)
                /\ \A j \in 1..Len(tasks) :
                      j # i => /\ tasks[j].st = "finished"
                               /\ IsOutcomeOf(ret.results[j], j, tasks[j].out)

\* the first task panicked in the tool function, and afterwards the second
\* task ran to a successful payload
C4_Witness ==
    /\ ReturnedWithAnswer
    /\ Len(tasks) = 2
    /\ completed = <<1, 2>>
    /\ tasks[1].out.why = "ToolPanic"
    /\ tasks[2].out.why = "Payload"
    /\ ret.results[2] = "{\n  \"a\": 1\n}"

\* C5: an answer without directives is returned as it is, with no results, no
\* task spawned and no secondary invocation made.
C5_NoDirectives ==
    (ReturnedWithAnswer /\ extract_tool_uses(answer.text) = <<>>) =>
        /\ ret = OkAnswer(answer.text, <<>>)
        /\ \E i \in 1..Len(messages) : messages[i] = Message(RoleAssistant, ret.answer)
        /\ tasks = <<>>
        /\ completed = <<>>
        /\ invocations = 0

\* an answer that holds an opening tag but no complete directive was returned
C5_Witness ==
    /\ ReturnedWithAnswer
    /\ answer.text = UnbalancedAnswer
    /\ ret.kind = "Ok"
    /\ ret.answer = UnbalancedAnswer
    /\ ret.results = <<>>

\* the answer with every directive the scan of extract_tool_uses matches cut
\* out, the text around them kept in order
RECURSIVE RemoveMatched(_)
RemoveMatched(s) ==
    LET i == FindFrom(s, OpenTag, 1)
        j == IF i = 0 THEN 0 ELSE FindFrom(s, CloseTag, i + Len(OpenTag))
    IN  IF i = 0 \/ j = 0 THEN s
        ELSE SubSeq(s, 1, i - 1) \o RemoveMatched(Drop(s, j + Len(CloseTag) - 1))

\* C6: when directives are extracted, clean_answer is the answer with every
\* extracted directive (delimiters included) removed and the rest in order,
\* and it contains no complete directive that was extracted.
C6_CleanAnswerStripped ==
    (pc = "spawning" /\ answer # None) =>
        /\ clean_answer = RemoveMatched(answer.text)
        /\ \A i \in 1..Len(text_calls) :
              FindFrom(clean_answer, Directive(text_calls[i]), 1) = 0

----------------------------------------------------------------------------
(* Properties of the rendering. *)

\* C7: a Character(c) message is rendered as "user" / "{c} said: {content}"
\* for a current speaker other than that character, and as "assistant" with
\* the content unchanged for that character as current speaker.
C7_CharacterRendering ==
    (rendered # None /\ rendered.msg.role.tag = "Character") =>
        IF rendered.speaker = rendered.msg.role
        THEN rendered.out = [role |-> "assistant", content |-> rendered.msg.content]
        ELSE rendered.out =
                [role |-> "user",
                 content |-> rendered.msg.role.name \o <<" ", "s", "a", "i", "d", ":", " ">>
                             \o rendered.msg.content]

\* Bob's "hi" rendered for the speaker Amy
C7_Witness ==
    /\ rendered # None
    /\ rendered.msg = Message(Character(Bob), <<"h", "i">>)
    /\ rendered.speaker = Character(Amy)
    /\ rendered.out = [role |-> "user",
                       content |-> <<"B", "o", "b", " ", "s", "a", "i", "d", ":", " ", "h", "i">>]

\* C8: an Assistant message is rendered as "assistant" unchanged for the
\* speaker Assistant and as "user" / "Assistant said: {content}" for every
\* other speaker; System and User messages are rendered as "system" / "user"
\* unchanged for every speaker.
C8_AssistantSystemUserRendering ==
    rendered # None =>
        CASE rendered.msg.role = RoleAssistant ->
                IF rendered.speaker = RoleAssistant
                THEN rendered.out = [role |-> "assistant", content |-> rendered.msg.content]
                ELSE rendered.out =
                        [role |-> "user",
                         content |-> <<"A", "s", "s", "i", "s", "t", "a", "n", "t", " ",
                                       "s", "a", "i", "d", ":", " ">> \o rendered.msg.content]
          [] rendered.msg.role = RoleSystem ->
                rendered.out = [role |-> "system", content |-> rendered.msg.content]
          [] rendered.msg.role = RoleUser ->
                rendered.out = [role |-> "user", content |-> rendered.msg.content]
          [] OTHER -> TRUE

\* the Assistant's "hi" rendered for the speaker Amy
C8_Witness ==
    /\ rendered # None
    /\ rendered.msg = Message(RoleAssistant, <<"h", "i">>)
    /\ rendered.speaker = Character(Amy)
    /\ rendered.out.role = "user"
    /\ Len(rendered.out.content) = 18

\* C9: the messages array of a request body starts with the one synthetic
\* system message that carries the character prompt, followed by one rendered
\* entry per stored message in stored order, and building it leaves the store
\* as it was.
C9_SystemMessageFirst ==
    payload # None =>
        /\ payload.body.messages[1] = [role |-> "system", content |-> CharacterPrompt]
        /\ Len(payload.body.messages) = Len(payload.before) + 1
        /\ \A i \in 1..Len(payload.before) :
              /\ EndsWith(payload.body.messages[i + 1].content, payload.before[i].content)
              /\ \E speaker \in ModelRoles :
                    payload.body.messages[i + 1] = to_api_format(payload.before[i], speaker)
        /\ payload.after = payload.before
        /\ \A i \in 1..Len(payload.after) : payload.after[i].content # CharacterPrompt

\* a body built over a store whose own first message is a System message
C9_Witness ==
    /\ payload # None
    /\ Len(payload.before) = 2
    /\ payload.before[1].role = RoleSystem
    /\ payload.body.messages[2].role = "system"
    /\ Len(payload.body.messages) = 3

\* the stored messages of the request body that are cast as "assistant"
AssistantCast ==
    {i \in 1..Len(payload.before) : payload.body.messages[i + 1].role = "assistant"}

\* C10: a request body is the rendering of the store for one current speaker:
\* only that speaker's messages are "assistant", every message of another
\* Character or of the Assistant is "user" with the "said: " prefix; so two
\* different characters are never both "assistant" in one body.
C10_OneSpeakerPerPayload ==
    payload # None =>
        /\ \E speaker \in ModelRoles :
              \A i \in 1..Len(payload.before) :
                  payload.body.messages[i + 1] = to_api_format(payload.before[i], speaker)
        /\ \A i, j \in AssistantCast : payload.before[i].role = payload.before[j].role

----------------------------------------------------------------------------
(* Properties of the exchanges of one session. *)

\* `last` is a completed get_answer or get_answer_again
LastIsExchange == last # None /\ last.op \in {"get_answer", "get_answer_again"}
\* .. which returned Ok(text)
LastExchangeSucceeded == LastIsExchange /\ last.result.kind = "Ok"

\* an i32 as an i64
ToI64(v) == I64(IF v < 0 THEN -1 ELSE 0, v)
\* x < y for the low halves read as unsigned 32-bit integers
UnsignedLess(x, y) ==
    (IF x >= 0 THEN x + MinI32 ELSE x - MinI32) < (IF y >= 0 THEN y + MinI32 ELSE y - MinI32)
\* the sum of two i64 (no sum of the model leaves the i64 range)
AddI64(a, b) ==
    LET lo == AddI32(a.lo, b.lo) IN
    I64(a.hi + b.hi + (IF UnsignedLess(lo, a.lo) THEN 1 ELSE 0), lo)

\* C11: a successful exchange leaves the usage counter at what it was before
\* plus the total_tokens of the response, as integers, so that after n
\* successful exchanges on a new session the counter is the sum of the n
\* total_tokens values.
C11_UsageIsSumOfTokens ==
    LastExchangeSucceeded =>
        ToI64(last.usage_after) = AddI64(ToI64(last.usage_before), last.resp.total_tokens.value)

\* C12: no operation of the session lowers the usage counter, whatever integer
\* total_tokens its responses carry.
C12_UsageNeverDecreases == [][usage' >= usage]_vars

\* `last` is a completed call that sent the session's request and the
\* transport answered it with `last.resp`
LastSentRequest ==
    /\ last # None
    /\ last.op \in {"send_request", "get_answer", "get_answer_again", "get_json_answer"}
    /\ last.resp # None

\* C13: when the response body is JSON and its usage.total_tokens is absent or
\* is not an integer, the exchange ends with MissingUsageData, the usage counter
\* is what it was, and the store is what the request was built from: no
\* Assistant message has been added.
C13_MissingUsageAborts ==
    (LastSentRequest /\ last.resp.t = "body" /\ last.resp.json
        /\ last.resp.total_tokens \in {TokensAbsent, TokensFloat}) =>
        /\ last.result = ChatErr("MissingUsageData")
        /\ last.usage_after = last.usage_before
        /\ last.after = last.sent

\* on a session that has counted tokens, a get_answer whose response has text
\* but no total_tokens has ended with MissingUsageData
C13_Witness ==
    /\ LastSentRequest
    /\ last.op = "get_answer"
    /\ last.resp.t = "body" /\ last.resp.json
    /\ last.resp.total_tokens = TokensAbsent
    /\ last.resp.content # None
    /\ last.result = ChatErr("MissingUsageData")
    /\ last.usage_before > 0
    /\ usage = last.usage_before
    /\ messages = Append(last.before, Message(RoleUser, last.input))

\* the HTTP status of what the transport gave, an Err(StatusCode) or an Ok(res)
StatusOf(resp) == IF resp.t = "status" THEN resp.code ELSE resp.status

\* C14: every call that sends the session's request makes one transport
\* attempt; a response with a status s that is not 2xx gives HttpError(s), any
\* other transport failure gives UnknownError, and in both cases the usage
\* counter and the store are what they were when the request was sent.
C14_NonSuccessStatusIsHttpError ==
    LastSentRequest =>
        /\ last.attempts = 1
        /\ (last.resp.t \in {"status", "body"} /\ StatusOf(last.resp) \notin 200..299) =>
              /\ last.result = HttpError(StatusOf(last.resp))
              /\ last.usage_after = last.usage_before
              /\ last.after = last.sent
        /\ last.resp.t = "failure" =>
              /\ last.result = ChatErr("UnknownError")
              /\ last.usage_after = last.usage_before
              /\ last.after = last.sent

\* C15: a successful get_answer(input) leaves the store it found followed by
\* User(input) and Assistant(returned text), and nothing else; a successful
\* get_answer_again leaves the store it found followed by Assistant(returned
\* text) alone.
C15_ExchangeAppendsAnswer ==
    LastExchangeSucceeded =>
        /\ last.op = "get_answer" =>
              last.after = last.before \o <<Message(RoleUser, last.input),
                                            Message(RoleAssistant, last.result.value)>>
        /\ last.op = "get_answer_again" =>
              last.after = Append(last.before, Message(RoleAssistant, last.result.value))

\* a successful get_answer followed by a successful get_answer_again: the store
\* holds User, Assistant, Assistant
C15_Witness ==
    /\ LastExchangeSucceeded
    /\ last.op = "get_answer_again"
    /\ Len(last.before) = 2
    /\ last.before[1] = Message(RoleUser, <<"g", "o">>)
    /\ last.before[2].role = RoleAssistant
    /\ messages = Append(last.before, Message(RoleAssistant, last.result.value))

\* s is a prefix of t
IsPrefix(s, t) == Len(s) <= Len(t) /\ SubSeq(t, 1, Len(s)) = s

\* C16: every step of every operation of the session, whether the operation
\* succeeds or fails, leaves the store it found as a prefix of the store it
\* leaves: messages are only ever appended.
C16_StoreAppendOnly == [][IsPrefix(messages, messages')]_vars

\* the store has grown through add_message, set_tools and a get_json_answer
\* that failed after its pushes
C16_Witness ==
    /\ Len(messages) = 4
    /\ messages[1] = Message(RoleSystem, SessionContent)
    /\ messages[2] = Message(RoleSystem, ToolsPrompt)
    /\ messages[3] = Message(RoleSystem, OutputDescription)
    /\ messages[4].role = RoleUser
    /\ last # None
    /\ last.op = "get_json_answer"
    /\ last.result.kind = "Err"

\* C18: a get_json_answer that returns an error returns GetJsonError or
\* AssembleOutputDescriptionError, at whichever step the failure occurred.
C18_JsonAnswerErrorKinds ==
    (last # None /\ last.op = "get_json_answer" /\ last.result.kind = "Err") =>
        last.result.error \in {"GetJsonError", "AssembleOutputDescriptionError"}

----------------------------------------------------------------------------
(* Properties of process_tool_call. *)

\* C17: for a function object with a name and an `arguments` string, unless the
\* string is the text of a JSON object the call fails with DeserializeArguments
\* and the tool function is not invoked.
C17_ArgumentsMustBeObject ==
    (/\ last # None
     /\ last.op = "process_tool_call"
     /\ last.out # None
     /\ last.res.ok
     /\ as_str(last.res.fc.name).some
     /\ as_str(last.res.fc.arguments).some
     /\ as_str(last.res.fc.arguments).value \in ProbeArgStrings \ {"{}"}) =>
        /\ last.out.kind = "Err"
        /\ last.out.why = "DeserializeArguments"
        /\ ~last.out.invoked

----------------------------------------------------------------------------
(* Properties of the dispatch. *)

\* C19: from the state in which the Generate exchange has produced its answer
\* to the state in which get_tool_answer returns, no step changes the session's
\* store or its usage counter, however many tasks run and however they
\* interleave: what their secondary invocations push and count stays on their
\* own sessions.
C19_TasksLeaveSessionAlone ==
    [][(pc \in {"spawning", "joining"}) => (messages' = messages /\ usage' = usage)]_vars

\* get_tool_answer has returned after two tasks whose secondary invocations
\* both answered: each task's own session holds its call text and counted
\* tokens, the caller's session holds the Generate exchange alone
C19_Witness ==
    /\ ReturnedWithAnswer
    /\ Len(tasks) = 2
    /\ \A i \in 1..2 :
          /\ tasks[i].base # None
          /\ tasks[i].base.usage = 7
          /\ tasks[i].base.messages = <<Message(RoleUser, tasks[i].call)>>
    /\ usage = 7
    /\ messages = <<Message(RoleUser, <<"g", "o">>), Message(RoleAssistant, answer.text)>>

\* C20: no task is awaited before all k tasks are spawned, get_tool_answer
\* returns only when each of the k tasks has finished, and once the answer has
\* directives get_tool_answer does return, given that the runtime keeps running
\* the owner and that every spawned task runs until it has succeeded, failed or
\* panicked.
C20_SpawnAllJoinAllReturn ==
    /\ [](results # <<>> => Len(tasks) = NumDirectives)
    /\ [](ReturnedWithAnswer =>
            /\ Len(tasks) = NumDirectives
            /\ \A i \in 1..Len(tasks) : tasks[i].st = "finished")
    /\ (pc = "spawning") ~> (pc = "returned")

\* get_tool_answer has returned after two tasks: the second finished first,
\* with Ok, and the first panicked after it
C20_Witness ==
    /\ ReturnedWithAnswer
    /\ Len(tasks) = 2
    /\ completed = <<2, 1>>
    /\ tasks[1].out.kind = "Panic"
    /\ tasks[2].out.kind = "Ok"
    /\ Len(ret.results) = 2

----------------------------------------------------------------------------
(* Properties of the validation inside the dispatch. *)

\* the argument strings of the dispatch behaviours that are JSON texts
ParsableArgStrings == {"{}", "[1]", "null"}

\* what the claim requires of the outcome `out` of a call that get_function
\* answered with `res`, the tool behaving as `tool`
ValidatedInOrder(res, out) ==
    LET name == as_str(res.fc.name)
        arguments == as_str(res.fc.arguments)
    IN  /\ out.invoked =>
              /\ res.ok
              /\ name.some /\ name.value \in RegisteredTools
              /\ arguments.some /\ arguments.value \in ParsableArgStrings
        /\ (res.ok /\ ~name.some) =>
              /\ out.kind = "Err" /\ out.why = "MissingField"
              /\ out.text = "Missing field: name"
        /\ (res.ok /\ name.some /\ ~arguments.some) =>
              /\ out.kind = "Err" /\ out.why = "MissingField"
              /\ out.text = "Missing field: arguments"
        /\ (res.ok /\ name.some /\ arguments.some
                /\ arguments.value \notin ParsableArgStrings) =>
              /\ out.kind = "Err" /\ out.why = "DeserializeArguments"
        /\ (res.ok /\ name.some /\ name.value \notin RegisteredTools
                /\ arguments.some /\ arguments.value \in ParsableArgStrings) =>
              /\ out.why = "NotFound" /\ ~out.invoked

\* C21: no task runs process_tool_call twice and there is at most one task per
\* extracted directive, so a tool function is invoked at most once per
\* directive; and whatever function object and tool behaviour gave the task
\* that finished last its outcome, the function was invoked only for a resolved
\* call with a registered name and parsed arguments, and the checks came in the
\* order name, arguments present, arguments parse, registry: a call without
\* name reports MissingField("name") even without arguments, and unparsable
\* arguments report DeserializeArguments even for an unregistered name.
C21_ValidatedOnceInOrder ==
    /\ Len(tasks) <= NumDirectives
    /\ Cardinality({completed[j] : j \in 1..Len(completed)}) = Len(completed)
    /\ \A j \in 1..Len(completed) : tasks[completed[j]].st = "finished"
    /\ completed # <<>> =>
          LET out == tasks[completed[Len(completed)]].out IN
          \A res \in ModelResolutions, tool \in ModelToolBehaviours :
              process_tool_call(res, tool) = out => ValidatedInOrder(res, out)

\* of two calls, the one that finished first was refused for its arguments
\* and the one that finished last had its tool function invoked; each ran once
C21_Witness ==
    /\ ReturnedWithAnswer
    /\ Len(tasks) = 2
    /\ completed = <<2, 1>>
    /\ tasks[2].out.why = "DeserializeArguments"
    /\ ~tasks[2].out.invoked
    /\ tasks[1].out.why = "Payload"
    /\ tasks[1].out.invoked

----------------------------------------------------------------------------
(* Properties of failed and repeated operations of one session. *)

\* `last` is a get_answer that returned an error
LastGetAnswerFailed == last # None /\ last.op = "get_answer" /\ last.result.kind = "Err"

\* the messages of a store that are User messages
UserCount(store) == Cardinality({i \in 1..Len(store) : store[i].role = RoleUser})

----------------------------------------------------------------------------
(* Properties of what the answers leave in the store. *)

\* C23: get_tool_answer(input) starts by pushing User(input) alone, no step of
\* the spawning and joining touches the store, and at the step where it returns
\* after its Generate exchange produced an answer the store is the store of the
\* request followed by one Assistant message, the raw answer, from which the
\* same directives can still be extracted: neither the stripped answer nor a
\* tool result has been pushed.
C23_ToolAnswerStoresRawAnswer ==
    /\ [][(Idle /\ pc' = "generate") =>
            /\ \E input \in ModelInputs :
                  messages' = Append(messages, Message(RoleUser, input))
            /\ payload'.after = messages']_vars
    /\ [][(pc \in {"spawning", "joining"}) => messages' = messages]_vars
    /\ [][(pc # "returned" /\ pc' = "returned" /\ answer' # None) =>
            /\ ret'.kind = "Ok"
            /\ messages' = Append(payload'.after, Message(RoleAssistant, answer'.text))
            /\ extract_tool_uses(messages'[Len(messages')].content) = text_calls'
            /\ text_calls' # <<>> => messages'[Len(messages')].content # ret'.answer]_vars

\* get_tool_answer has returned the stripped answer and two tool results; the
\* store holds the User message and the answer with its two directives
C23_Witness ==
    /\ ReturnedWithAnswer
    /\ ret.kind = "Ok"
    /\ ret.answer = <<"o", "k", " ", " ", " ", "d", "o", "n", "e">>
    /\ ret.results = <<"1", "1">>
    /\ messages = <<Message(RoleUser, <<"g", "o">>), Message(RoleAssistant, AnswerWith(2))>>


LastIsJsonAnswer == last # None /\ last.op = "get_json_answer"

\* the schema-instruction System messages of a store
DescriptionCount(store) ==
    Cardinality({i \in 1..Len(store) : store[i] = Message(RoleSystem, OutputDescription)})

\* the first exchange of the last get_json_answer returned an answer
FirstExchangeSucceeded == HasAnswer(last.resp) /\ last.result # OverflowPanic

\* C24: a get_json_answer whose output description was assembled leaves the
\* caller's store as it was followed by System(schema instruction), User(input)
\* and, when the first exchange succeeded, Assistant(first answer), so one more
\* schema instruction per call; the caller's counter has grown by the first
\* response's tokens only; the second pass ran on a session of its own, which
\* holds the first answer as its User message, the reformatted text and that
\* pass's tokens. When the assembly failed, the store and the counter are as
\* before and nothing was sent.
C24_JsonAnswerStoreAndUsage ==
    LastIsJsonAnswer =>
        IF last.resp = None
        THEN /\ last.result = ChatErr("AssembleOutputDescriptionError")
             /\ last.after = last.before
             /\ last.usage_after = last.usage_before
             /\ last.attempts = 0
             /\ last.second = None
        ELSE LET asked == last.before \o <<Message(RoleSystem, OutputDescription),
                                           Message(RoleUser, last.input)>> IN
             /\ last.after = IF FirstExchangeSucceeded
                             THEN Append(asked, Message(RoleAssistant, last.resp.content.text))
                             ELSE asked
             /\ DescriptionCount(last.after) = DescriptionCount(last.before) + 1
             /\ last.usage_after =
                   IF /\ last.resp.t = "body"
                      /\ last.resp.json
                      /\ as_i64(last.resp.total_tokens).some
                      /\ last.result # OverflowPanic
                   THEN AddI32(last.usage_before, AsI32(as_i64(last.resp.total_tokens).value))
                   ELSE last.usage_before
             /\ last.second # None =>
                   /\ FirstExchangeSucceeded
                   /\ last.second.messages[1] = Message(RoleUser, last.resp.content.text)
                   /\ Len(last.second.messages) <= 2
                   /\ last.second.usage \in {0, 7}
                   /\ \A i \in 1..Len(last.after) :
                         last.after[i].content \notin {JsonText, BrokenJsonText}

\* the second of two get_json_answer calls has returned the deserialized value:
\* the caller's store holds two schema instructions and both first exchanges,
\* its counter the tokens of the two first responses; the second pass's session
\* holds the reformatted text and its own 7 tokens
C24_Witness ==
    /\ LastIsJsonAnswer
    /\ last.result = OkValue("T")
    /\ DescriptionCount(last.before) = 1
    /\ DescriptionCount(messages) = 2
    /\ Len(messages) = 6
    /\ messages = last.after
    /\ usage = 14
    /\ last.second = [messages |-> <<Message(RoleUser, <<"y", "e", "s">>),
                                     Message(RoleAssistant, JsonText)>>,
                      usage |-> 7]

====
